---- MODULE Spec2Model ----
(***************************************************************************)
(* A model of the concurrent core of gateway-rs:                           *)
(*   - RouterService / RouterConduit   (src/src/service/router.rs)         *)
(*   - RegionWatcher                   (src/src/region_watcher.rs)         *)
(*   - server::run                     (src/src/server.rs)                 *)
(*   - Beacon::new                     (src/beacon/src/beacon.rs)          *)
(*   - MsgSign::sign                   (src/src/traits/msg_sign.rs)        *)
(* Each async method is split at its await points; the remote router and   *)
(* the config service are the environment.                                 *)
(***************************************************************************)
EXTENDS Integers, Sequences, FiniteSets, TLC

(***************************************************************************)
(* Bounds of the model.                                                    *)
(***************************************************************************)
\* streams the service may open in one behaviour
MaxStreams == 2
\* upstream envelopes put on one stream
MaxUp == 2
\* downstream envelopes queued on one stream
MaxDown == 1
\* completed send calls remembered in sendHist
MaxHist == 3
\* distinct region parameter values the remote may return (besides the default)
MaxParams == 2
\* publishes of the region watcher in one behaviour
MaxPublishes == 2
\* entropy versions a caller may pass are 0..MaxVersion
MaxVersion == 2
\* entropy data values are 0..MaxEntropy
MaxEntropy == 1
\* channels in a region's parameter list
MaxChannels == 2
\* the clock runs over 0..MaxClock
MaxClock == 1
\* message bodies are 0..MaxBody
MaxBody == 1
\* non-empty signature contents are <<1>> .. <<MaxSig>>
MaxSig == 2

(***************************************************************************)
(* Program constants.                                                      *)
(***************************************************************************)
CONDUIT_CAPACITY == 50
REGION_BACKOFF_RETRIES == 10
\* seconds
REGION_BACKOFF_MIN_WAIT == 5
REGION_BACKOFF_MAX_WAIT == 3600
\* bytes
BEACON_PAYLOAD_SIZE == 51

\* Option<RouterConduit>::None ; stream identifiers are 1..MaxStreams
NoConduit == 0

VARIABLES
    \* ---- RouterService ----
    conduit,    \* self.conduit: NoConduit or the id of the stream it holds
    rpc,        \* position of the running RouterService call ("idle": none)
    rop,        \* the running (or last) RouterService call
    newc,       \* connect()'s local `conduit`, not yet installed
    opened,     \* the stream the running call has opened and registered (0: none)
    streams,    \* every route stream ever opened, by id
    ret,        \* what the last finished call returned
    sendHist,   \* outcomes of the last consecutive send calls
    \* ---- RegionWatcher ----
    validator,      \* cfg(feature = "validator")
    request_retry,  \* self.request_retry
    watch,          \* the value held by the watch channel self.watch
    shutdown,       \* the triggered::Listener has fired
    wpc,            \* position of RegionWatcher::run
    sleep,          \* run's local `sleep` (seconds)
    wret,           \* what run returned ("none": still running)
    wres,           \* what the last check_region call returned
    wlast,          \* outcome of the last check_region that reached the backoff
    wprev,          \* the outcome before wlast
    remote_params,  \* run's binding of the fetched value in the Ok(Some(..)) arm
    pubs,           \* the values self.watch.send_replace was called with, in order
    seen,           \* a subscriber's last current_value read, and the publishes before it
    \* ---- server::run ----
    tasks,      \* state of each of the five joined futures
    sret,       \* what server::run returned ("none": still running)
    \* ---- Beacon::new ----
    now,        \* SystemTime::now(), in seconds
    bin,        \* the (remote_entropy, local_entropy, region_params) a caller holds
    bfirst,     \* what the first Beacon::new call on bin returned
    bout,       \* what the latest Beacon::new call on bin returned
    \* ---- MsgSign::sign ----
    smsg,       \* the message a caller holds
    ssig        \* what the last sign call on smsg returned

routerVars == <<conduit, rpc, rop, newc, opened, streams, ret, sendHist>>

watcherVars == <<validator, request_retry, watch, shutdown, wpc, sleep, wret,
                 wres, wlast, wprev, remote_params, pubs>>

\* the watcher's state but its position
watcherVars2 == <<validator, request_retry, watch, shutdown, sleep, wret,
                  wres, wlast, wprev, remote_params, pubs>>

subscriberVars == <<seen>>

serverVars == <<tasks, sret>>

beaconVars == <<now, bin, bfirst, bout>>

signVars == <<smsg, ssig>>

\* the state outside RouterService and RegionWatcher
otherVars == <<serverVars, beaconVars, signVars>>

vars == <<conduit, rpc, rop, newc, opened, streams, ret, sendHist,
          validator, request_retry, watch, shutdown, wpc, sleep, wret,
          wres, wlast, wprev, remote_params, pubs, seen, tasks, sret, now, bin, bfirst, bout,
          smsg, ssig>>

\* Option::None and Option::Some(x), for the state outside the router
None == <<>>
Some(x) == <<x>>

\* no fetched value is bound
NoParams == -1

\* a subscriber that has not read the channel yet
NotRead == [val |-> 0, n |-> -1]

\* the futures server::run joins
Tasks == {"region_watcher", "beaconer", "gateway", "router", "api"}

UpEnvelopes == {"Register", "Packet"}
\* envelope_down_v1::Data has the single variant Packet; data may be absent
DownEnvelopes == {"Packet", "None"}

Errors == {"ErrStream", "ErrRpc", "ErrInvalidEnvelope", "ErrSystemTime", "ErrCrypto"}

IsErr(res) == res \in Errors

(***************************************************************************)
(* RouterConduit                                                           *)
(***************************************************************************)
\* A stream as RouterConduit::new leaves it: nothing sent, nothing received.
\*   up     every envelope put on tx, in order
\*   inq    envelopes still queued in the mpsc channel
\*   rxOpen client_rx is alive (tx.send can succeed)
\*   down   envelopes the remote has sent and recv has not read
\*   dstate the downstream: "open", "end" (closed), "error" (status)
\*   live   the tx/rx pair is still owned by the client
ConduitNew == [up |-> <<>>, inq |-> 0, rxOpen |-> TRUE, down |-> <<>>,
               dstate |-> "open", live |-> TRUE]

\* faulty variant: a send that never notices a closed receiver
TxSendOkAlways(st) == TRUE

\* tx.send(env).await on stream st: Ok exactly when the receiver is alive
TxSendOk(st) == st.rxOpen

TxPut(st, env) == [st EXCEPT !.up = Append(@, env), !.inq = @ + 1]

\* RouterConduit::send wraps the packet in an EnvelopeUpV1 { Packet }
ConduitSend(st) == TxPut(st, "Packet")

\* faulty variant: register wraps its message in the Packet variant
ConduitRegisterAsPacket(st) == TxPut(st, "Packet")

\* RouterConduit::register puts an EnvelopeUpV1 { Register }
ConduitRegister(st) == TxPut(st, "Register")

\* dropping a conduit releases its sender and receiver
DropStream(st) == [st EXCEPT !.live = FALSE, !.rxOpen = FALSE, !.inq = 0,
                             !.down = <<>>, !.dstate = "end"]

DropIn(ss, s) == IF s = NoConduit THEN ss ELSE [ss EXCEPT ![s] = DropStream(@)]

\* faulty variant: an envelope without a packet is passed over as if the stream ended
ConduitRecvIgnoring(msg) ==
    CASE msg = "Packet" -> "Some"
      [] msg = "None"   -> "None"
      [] msg = "end"    -> "None"
      [] msg = "error"  -> "ErrRpc"

\* RouterConduit::recv on one rx.message() outcome
ConduitRecv(msg) ==
    CASE msg = "Packet" -> "Some"
      [] msg = "None"   -> "ErrInvalidEnvelope"
      [] msg = "end"    -> "None"
      [] msg = "error"  -> "ErrRpc"

\* what rx.message() yields on stream st ("pending" while nothing is there)
RxMessage(st) ==
    IF st.down # <<>> THEN Head(st.down)
    ELSE IF st.dstate = "open" THEN "pending" ELSE st.dstate

(***************************************************************************)
(* RouterService                                                           *)
(***************************************************************************)
\* RouterService::disconnect
disconnect(c) == NoConduit

\* RouterService::send, its first statement
SendEntry(c) == IF c = NoConduit THEN "conn_new" ELSE "push"

\* faulty variant: recv connects when there is no conduit
RecvEntryConnecting(c) == IF c = NoConduit THEN "conn_new" ELSE "recv_wait"

\* RouterService::recv, its first statement
RecvEntry(c) == IF c = NoConduit THEN "recv_pending" ELSE "recv_wait"

\* faulty variant: a failed send keeps the conduit
SendResultKeeping(c, ok) == IF ok THEN [conduit |-> c, res |-> "Ok"]
                            ELSE [conduit |-> c, res |-> "ErrStream"]

\* RouterService::send, the match on the conduit's send result
SendResult(c, ok) == IF ok THEN [conduit |-> c, res |-> "Ok"]
                     ELSE [conduit |-> disconnect(c), res |-> "ErrStream"]

\* faulty variant: every Ok(_) of the conduit's recv keeps the conduit
RecvResultKeepingOnEnd(c, res) ==
    IF res \in {"Some", "None"} THEN [conduit |-> c, res |-> res]
    ELSE [conduit |-> disconnect(c), res |-> res]

\* RouterService::recv, the match on the conduit's recv result
RecvResult(c, res) == IF res = "Some" THEN [conduit |-> c, res |-> res]
                      ELSE [conduit |-> disconnect(c), res |-> res]

HistAdd(h, e) == IF Len(h) < MaxHist THEN Append(h, e) ELSE Append(Tail(h), e)

\* the history after call `op` returned `res` having pushed on stream st
\* (opn: the call opened st itself; closed: the remote had closed st)
HistAfter(op, res, st, opn) ==
    IF op = "send"
    THEN HistAdd(sendHist, [ok |-> (res = "Ok"), st |-> st, opened |-> opn,
                            closed |-> (st # NoConduit /\ ~streams[st].rxOpen)])
    ELSE <<>>

\* RouterService::new; the region watcher is not started
RouterInit ==
    /\ conduit = NoConduit
    /\ rpc = "idle"
    /\ rop = "new"
    /\ newc = NoConduit
    /\ opened = NoConduit
    /\ streams = <<>>
    /\ ret = [op |-> "new", res |-> "Ok"]
    /\ sendHist = <<>>
    /\ validator = FALSE
    /\ request_retry = 1
    /\ watch = 0
    /\ shutdown = FALSE
    /\ wpc = "loop"
    /\ sleep = 0
    /\ wret = "none"
    /\ wres = "none"
    /\ wlast = "none"
    /\ wprev = "none"
    /\ remote_params = NoParams
    /\ pubs = <<>>
    /\ seen = NotRead
    /\ tasks = [t \in Tasks |-> "new"]
    /\ sret = "none"
    /\ now = 0
    /\ bin = None
    /\ bfirst = None
    /\ bout = None
    /\ smsg = None
    /\ ssig = None

\* pub async fn send: entry
CallSend ==
    /\ UNCHANGED <<watcherVars, subscriberVars, otherVars>>
    /\ rpc = "idle"
    /\ rop' = "send"
    /\ opened' = NoConduit
    /\ rpc' = SendEntry(conduit)
    /\ UNCHANGED <<conduit, newc, streams, ret, sendHist>>

\* pub async fn recv: entry
CallRecv ==
    /\ UNCHANGED <<watcherVars, subscriberVars, otherVars>>
    /\ rpc = "idle"
    /\ rop' = "recv"
    /\ opened' = NoConduit
    /\ rpc' = RecvEntry(conduit)
    /\ UNCHANGED <<conduit, newc, streams, ret, sendHist>>

\* pub async fn connect: entry
CallConnect ==
    /\ UNCHANGED <<watcherVars, subscriberVars, otherVars>>
    /\ rpc = "idle"
    /\ rop' = "connect"
    /\ opened' = NoConduit
    /\ rpc' = "conn_new"
    /\ UNCHANGED <<conduit, newc, streams, ret, sendHist>>

\* pub async fn reconnect: disconnect(), then connect()
CallReconnect ==
    /\ UNCHANGED <<watcherVars, subscriberVars, otherVars>>
    /\ rpc = "idle"
    /\ rop' = "reconnect"
    /\ opened' = NoConduit
    /\ conduit' = disconnect(conduit)
    /\ streams' = DropIn(streams, conduit)
    /\ rpc' = "conn_new"
    /\ UNCHANGED <<newc, ret, sendHist>>

\* pub fn disconnect
Disconnect ==
    /\ UNCHANGED <<watcherVars, subscriberVars, otherVars>>
    /\ rpc = "idle"
    /\ rop' = "disconnect"
    /\ opened' = NoConduit
    /\ conduit' = disconnect(conduit)
    /\ streams' = DropIn(streams, conduit)
    /\ ret' = [op |-> "disconnect", res |-> "Ok"]
    /\ sendHist' = <<>>
    /\ UNCHANGED <<rpc, newc>>

\* faulty variant: connect takes up the stream opened last instead of opening one
ConnectNewReusing ==
    /\ UNCHANGED <<watcherVars, subscriberVars, otherVars>>
    /\ rpc = "conn_new"
    /\ Len(streams) < MaxStreams
    /\ IF streams = <<>>
       THEN streams' = Append(streams, ConduitNew) /\ newc' = 1
       ELSE /\ newc' = Len(streams)
            /\ streams' = [streams EXCEPT ![Len(streams)] =
                              [ConduitNew EXCEPT !.up = streams[Len(streams)].up]]
    /\ rpc' = "conn_reg"
    /\ UNCHANGED <<conduit, rop, opened, ret, sendHist>>

\* connect: RouterConduit::new(uri).await succeeded
ConnectNewOk ==
    /\ UNCHANGED <<watcherVars, subscriberVars, otherVars>>
    /\ rpc = "conn_new"
    /\ Len(streams) < MaxStreams
    /\ streams' = Append(streams, ConduitNew)
    /\ newc' = Len(streams) + 1
    /\ rpc' = "conn_reg"
    /\ UNCHANGED <<conduit, rop, opened, ret, sendHist>>

\* connect: RouterConduit::new(uri).await? failed (route rpc status)
ConnectNewErr ==
    /\ UNCHANGED <<watcherVars, subscriberVars, otherVars>>
    /\ rpc = "conn_new"
    /\ rpc' = "idle"
    /\ ret' = [op |-> rop, res |-> "ErrRpc"]
    /\ sendHist' = HistAfter(rop, "ErrRpc", NoConduit, FALSE)
    /\ UNCHANGED <<conduit, rop, newc, opened, streams>>

\* faulty variant: the conduit is installed before it is registered, and a failed
\* register leaves it in place
ConnectRegisterErrInstalled ==
    /\ UNCHANGED <<watcherVars, subscriberVars, otherVars>>
    /\ rpc = "conn_reg"
    /\ \E e \in {"ErrSystemTime", "ErrCrypto", "ErrStream"} :
          /\ e = "ErrStream" => ~TxSendOk(streams[newc])
          /\ ret' = [op |-> rop, res |-> e]
          /\ sendHist' = HistAfter(rop, e, NoConduit, FALSE)
    /\ streams' = DropIn(streams, conduit)
    /\ conduit' = newc
    /\ newc' = NoConduit
    /\ rpc' = "idle"
    /\ UNCHANGED <<rop, opened>>

\* connect: conduit.register(keypair).await? failed; the local conduit is dropped
ConnectRegisterErr ==
    /\ UNCHANGED <<watcherVars, subscriberVars, otherVars>>
    /\ rpc = "conn_reg"
    /\ \E e \in {"ErrSystemTime", "ErrCrypto", "ErrStream"} :
          /\ e = "ErrStream" => ~TxSendOk(streams[newc])
          /\ ret' = [op |-> rop, res |-> e]
          /\ sendHist' = HistAfter(rop, e, NoConduit, FALSE)
    /\ streams' = DropIn(streams, newc)
    /\ newc' = NoConduit
    /\ rpc' = "idle"
    /\ UNCHANGED <<conduit, rop, opened>>

\* connect: register succeeded; self.conduit = Some(conduit); Ok(())
ConnectRegisterOk ==
    /\ UNCHANGED <<watcherVars, subscriberVars, otherVars>>
    /\ rpc = "conn_reg"
    /\ TxSendOk(streams[newc])
    /\ streams[newc].inq < CONDUIT_CAPACITY
    /\ streams' = [DropIn(streams, conduit) EXCEPT ![newc] = ConduitRegister(@)]
    /\ conduit' = newc
    /\ opened' = newc
    /\ newc' = NoConduit
    /\ IF rop = "send"
       THEN /\ rpc' = "push"
            /\ UNCHANGED <<ret, sendHist>>
       ELSE /\ rpc' = "idle"
            /\ ret' = [op |-> rop, res |-> "Ok"]
            /\ sendHist' = <<>>
    /\ UNCHANGED <<rop>>

\* send: self.conduit.as_mut().unwrap().send(msg).await and the match on it
SendPush ==
    /\ UNCHANGED <<watcherVars, subscriberVars, otherVars>>
    /\ rpc = "push"
    /\ LET ok == TxSendOk(streams[conduit])
           r  == SendResult(conduit, ok)
       IN /\ ok => /\ streams[conduit].inq < CONDUIT_CAPACITY
                   /\ Len(streams[conduit].up) < MaxUp
          /\ conduit' = r.conduit
          /\ streams' = IF ok THEN [streams EXCEPT ![conduit] = ConduitSend(@)]
                        ELSE IF r.conduit = NoConduit THEN DropIn(streams, conduit)
                        ELSE streams
          /\ ret' = [op |-> "send", res |-> r.res]
          /\ sendHist' = HistAfter("send", r.res, conduit, opened = conduit)
    /\ rpc' = "idle"
    /\ UNCHANGED <<rop, newc, opened>>

\* recv: self.conduit.as_mut().unwrap().recv().await and the match on it
RecvStep ==
    /\ UNCHANGED <<watcherVars, subscriberVars, otherVars>>
    /\ rpc = "recv_wait"
    /\ LET msg == RxMessage(streams[conduit])
           r   == RecvResult(conduit, ConduitRecv(msg))
       IN /\ msg # "pending"
          /\ conduit' = r.conduit
          /\ streams' = IF r.conduit = NoConduit THEN DropIn(streams, conduit)
                        ELSE IF streams[conduit].down # <<>>
                             THEN [streams EXCEPT ![conduit].down = Tail(@)]
                             ELSE streams
          /\ ret' = [op |-> "recv", res |-> r.res]
    /\ rpc' = "idle"
    /\ sendHist' = <<>>
    /\ UNCHANGED <<rop, newc, opened>>

\* the caller drops the future of the running call (a select! took another branch)
Cancel ==
    /\ UNCHANGED <<watcherVars, subscriberVars, otherVars>>
    /\ rpc # "idle"
    /\ rpc' = "idle"
    /\ streams' = DropIn(streams, newc)
    /\ newc' = NoConduit
    /\ ret' = [op |-> rop, res |-> "Dropped"]
    /\ sendHist' = <<>>
    /\ UNCHANGED <<conduit, rop, opened>>

LiveStreams == {s \in 1..Len(streams) : streams[s].live}

\* the remote router takes one upstream envelope off the channel
RemoteTake ==
    \E s \in LiveStreams :
        /\ streams[s].inq > 0
        /\ streams[s].rxOpen
        /\ streams' = [streams EXCEPT ![s].inq = @ - 1]
        /\ UNCHANGED <<conduit, rpc, rop, newc, opened, ret, sendHist, watcherVars,
                       subscriberVars, otherVars>>

\* the remote router sends one downstream envelope
RemoteSend ==
    \E s \in LiveStreams, d \in DownEnvelopes :
        /\ streams[s].dstate = "open"
        /\ Len(streams[s].down) < MaxDown
        /\ streams' = [streams EXCEPT ![s].down = Append(@, d)]
        /\ UNCHANGED <<conduit, rpc, rop, newc, opened, ret, sendHist, watcherVars,
                       subscriberVars, otherVars>>

\* the remote router closes the stream, cleanly or with a status
RemoteClose ==
    \E s \in LiveStreams, how \in {"end", "error"} :
        /\ streams[s].dstate = "open"
        /\ streams' = [streams EXCEPT ![s].dstate = how, ![s].rxOpen = FALSE,
                                      ![s].inq = 0]
        /\ UNCHANGED <<conduit, rpc, rop, newc, opened, ret, sendHist, watcherVars,
                       subscriberVars, otherVars>>

RouterNext ==
    \/ CallSend
    \/ CallRecv
    \/ CallConnect
    \/ CallReconnect
    \/ Disconnect
    \/ ConnectNewOk
    \/ ConnectNewErr
    \/ ConnectRegisterErr
    \/ ConnectRegisterOk
    \/ SendPush
    \/ RecvStep
    \/ Cancel
    \/ RemoteTake
    \/ RemoteSend
    \/ RemoteClose

(***************************************************************************)
(* Properties of the RouterService                                         *)
(***************************************************************************)
StreamIds == 1..Len(streams)

Last(q) == q[Len(q)]

\* the running call returns in this step
Returns(op) == rpc # "idle" /\ rpc' = "idle" /\ ret'.op = op /\ ret'.res # "Dropped"

\* this step puts a Packet envelope on stream s
PutsPacket(s) ==
    /\ Len(streams'[s].up) = Len(streams[s].up) + 1
    /\ Last(streams'[s].up) = "Packet"

\* C1: on every stream the first upstream envelope is a Register and every
\* later one a Packet, so no Packet precedes the Register; and the service
\* holds (is Connected on) only a stream whose Register has been enqueued.
C1_RegisterFirst ==
    /\ \A s \in StreamIds :
          \A i \in 1..Len(streams[s].up) :
              streams[s].up[i] = (IF i = 1 THEN "Register" ELSE "Packet")
    /\ conduit # NoConduit =>
          /\ conduit \in StreamIds
          /\ streams[conduit].up # <<>>
          /\ Head(streams[conduit].up) = "Register"

\* a send connected implicitly, registered, and then put its packet
C1_Witness ==
    /\ conduit # NoConduit
    /\ streams[conduit].up = <<"Register", "Packet">>
    /\ ret = [op |-> "send", res |-> "Ok"]
    /\ rpc = "idle"

\* C2: a send that returns an error leaves the service Disconnected; the send
\* called next starts with a connect; a send that follows a failed send and
\* puts its packet puts it on a stream it opened and registered itself, never
\* on the stream of the failed send or on a released one.
C2_SendAfterError ==
    /\ [][ /\ (Returns("send") /\ IsErr(ret'.res)) => conduit' = NoConduit
           /\ ( /\ rpc = "idle" /\ ret.op = "send" /\ IsErr(ret.res)
                /\ rpc' # "idle" /\ rop' = "send" ) => rpc' = "conn_new"
           /\ \A s \in StreamIds :
                 PutsPacket(s) => /\ s = conduit /\ streams[s].live
                                  /\ Head(streams[s].up) = "Register"
         ]_vars
    /\ [](\A i \in 2..Len(sendHist) :
            (~sendHist[i-1].ok /\ sendHist[i].st # NoConduit) =>
                /\ sendHist[i].opened
                /\ sendHist[i].st # sendHist[i-1].st)

\* a send failed on a closed stream and the next send went out on a new one
C2_Witness ==
    /\ Len(sendHist) >= 2
    /\ ~sendHist[Len(sendHist)-1].ok
    /\ sendHist[Len(sendHist)-1].st # NoConduit
    /\ Last(sendHist).ok
    /\ rpc = "idle"

\* C3 (scenario S6): of consecutive sends starting Disconnected, the first
\* connects, registers and sends; a send that finds its stream closed by the
\* remote returns an error and the service is Disconnected after it; the send
\* after a failed one that succeeds opened and registered a new stream and
\* put its packet there.
C3_ConduitReconnect ==
    /\ \A i \in 1..Len(sendHist) :
          LET h == sendHist[i]
          IN /\ h.closed => ~h.ok
             /\ (h.ok /\ h.opened) =>
                   /\ streams[h.st].up[1] = "Register"
                   /\ streams[h.st].up[2] = "Packet"
             /\ (i > 1 /\ ~sendHist[i-1].ok /\ h.ok) =>
                   /\ h.opened
                   /\ h.st # sendHist[i-1].st
    /\ (rpc = "idle" /\ sendHist # <<>> /\ ~Last(sendHist).ok) =>
          conduit = NoConduit

\* the three sends of S6: connect+register+send, failure on the stream the
\* remote closed, reconnect+register+send
C3_Witness ==
    /\ Len(sendHist) = 3
    /\ sendHist[1].ok /\ sendHist[1].opened
    /\ ~sendHist[2].ok /\ sendHist[2].closed /\ sendHist[2].st = sendHist[1].st
    /\ sendHist[3].ok /\ sendHist[3].opened
    /\ streams[sendHist[1].st].up = <<"Register", "Packet">>
    /\ conduit = sendHist[3].st

\* C4: recv called while Disconnected suspends: it never returns a value (it
\* ends only by being dropped by its caller), never opens a stream and never
\* changes the connection state.
C4_RecvWhileDisconnected ==
    /\ [][ /\ ( /\ rpc = "idle" /\ rpc' # "idle" /\ rop' = "recv"
                /\ conduit = NoConduit ) => rpc' = "recv_pending"
           /\ rpc = "recv_pending" =>
                 /\ conduit' = NoConduit
                 /\ newc' = NoConduit
                 /\ Len(streams') = Len(streams)
                 /\ \/ rpc' = "recv_pending" /\ ret' = ret
                    \/ rpc' = "idle" /\ ret' = [op |-> "recv", res |-> "Dropped"]
         ]_vars
    /\ [](rop = "recv" => rpc \in {"idle", "recv_pending", "recv_wait"})

\* recv is suspended on a service that was connected before and is not now
C4_Witness ==
    /\ rpc = "recv_pending"
    /\ conduit = NoConduit
    /\ streams # <<>>

\* C5: recv on a Connected service reads one downstream envelope: a Packet
\* yields the packet and the service stays Connected on the same stream; an
\* envelope without a packet yields InvalidEnvelope; a transport error yields
\* an error; every error recv returns leaves the service Disconnected.
C5_RecvConnected ==
    [][ (rpc = "recv_wait" /\ Returns("recv")) =>
          LET st == streams[conduit]
          IN /\ (st.down # <<>> /\ Head(st.down) = "Packet") =>
                   /\ ret'.res = "Some"
                   /\ conduit' = conduit
                   /\ streams'[conduit].down = Tail(st.down)
             /\ (st.down # <<>> /\ Head(st.down) = "None") =>
                   ret'.res = "ErrInvalidEnvelope"
             /\ (st.down = <<>> /\ st.dstate = "error") => IsErr(ret'.res)
             /\ IsErr(ret'.res) => conduit' = NoConduit
             /\ ret'.res = "Some" => (st.down # <<>> /\ Head(st.down) = "Packet")
      ]_vars

\* recv rejected an envelope without a packet and disconnected
C5_Witness ==
    /\ ret = [op |-> "recv", res |-> "ErrInvalidEnvelope"]
    /\ rpc = "idle"
    /\ conduit = NoConduit

\* C6: disconnect always ends Disconnected and a second disconnect changes
\* nothing; a connect or reconnect that succeeds installs a stream opened by
\* that call, different from the one held before, which has carried exactly
\* one Register; every stream but the one held (and the one connect is
\* building) has been released.
C6_ConduitIdempotence ==
    /\ [][ /\ (rpc = "idle" /\ rpc' = "idle" /\ rop' = "disconnect") =>
                 /\ conduit' = NoConduit
                 /\ conduit = NoConduit => streams' = streams
                 /\ (rop = "disconnect") => UNCHANGED routerVars
           /\ ( /\ rpc = "conn_reg" /\ rpc' = "idle" /\ ret'.res = "Ok"
                /\ ret'.op \in {"connect", "reconnect"} ) =>
                 /\ conduit' # NoConduit
                 /\ conduit' # conduit
                 /\ conduit' = Len(streams)
                 /\ streams[conduit'].up = <<>>
                 /\ streams'[conduit'].up = <<"Register">>
                 /\ \A s \in StreamIds : streams'[s].live => s = conduit'
         ]_vars
    /\ [](/\ LiveStreams \subseteq ({conduit, newc} \ {NoConduit})
          /\ conduit # NoConduit => streams[conduit].live)

\* a connect after a disconnect succeeded: the second stream is held, the
\* first is released
C6_Witness ==
    /\ ret = [op |-> "connect", res |-> "Ok"]
    /\ rpc = "idle"
    /\ conduit = 2
    /\ ~streams[1].live
    /\ streams[1].up # <<>>

\* C22: when recv on a Connected service meets the end of the downstream
\* stream it returns Ok(None) and the service is Disconnected; after any recv
\* that returns, the service is Connected exactly when recv returned a packet
\* (then on the same stream); and a send made next opens a stream of its own
\* and registers on it before its packet.
C22_RecvStreamEnd ==
    /\ [][(rpc = "recv_wait" /\ Returns("recv")) =>
            /\ RxMessage(streams[conduit]) = "end" =>
                  (ret'.res = "None" /\ conduit' = NoConduit)
            /\ conduit' # NoConduit <=> ret'.res = "Some"
            /\ conduit' # NoConduit => conduit' = conduit
            /\ ret'.res = "None" => ~streams'[conduit].live
         ]_vars
    /\ [][(rpc = "idle" /\ ret = [op |-> "recv", res |-> "None"] /\ rop' = "send"
             /\ rpc' # "idle") => rpc' = "conn_new"]_vars
    /\ []((ret = [op |-> "recv", res |-> "None"] /\ rop = "send" /\ rpc = "push") =>
            /\ conduit # NoConduit
            /\ opened = conduit
            /\ streams[conduit].live
            /\ streams[conduit].up = <<"Register">>)

\* the stream ended, recv returned Ok(None), and the send that followed has
\* opened and registered a second stream
C22_Witness ==
    /\ ret = [op |-> "recv", res |-> "None"]
    /\ rop = "send"
    /\ rpc = "push"
    /\ conduit = 2
    /\ streams[1].dstate = "end"
    /\ streams[2].up = <<"Register">>

\* the running connect (of connect, reconnect or send) fails in this step
ConnectFails ==
    /\ rpc \in {"conn_new", "conn_reg"}
    /\ rpc' = "idle"
    /\ IsErr(ret'.res)

\* C23: a connect that fails, at opening the stream or at the Register,
\* returns the error and leaves self.conduit as it was: the stream it had
\* opened is dropped, never installed; within send the error is returned and
\* no packet is put on any stream, the service staying Disconnected; a
\* Connected service keeps its conduit untouched; after reconnect, which
\* disconnected first, the service is Disconnected.
C23_FailedConnectFrame ==
    /\ [][ConnectFails =>
            /\ ret'.op = rop
            /\ conduit' = conduit
            /\ newc' = NoConduit
            /\ newc # NoConduit => (conduit' # newc /\ ~streams'[newc].live)
            /\ conduit # NoConduit => streams'[conduit] = streams[conduit]
            /\ \A s \in StreamIds : streams'[s].up = streams[s].up
            /\ rop \in {"send", "reconnect"} => conduit' = NoConduit
         ]_vars
    /\ [](/\ newc # NoConduit => newc # conduit
          /\ conduit # NoConduit =>
                (streams[conduit].live /\ streams[conduit].up # <<>>
                    /\ streams[conduit].up[1] = "Register"))

\* a Connected service called connect, the Register of the new stream failed:
\* the service still holds its first stream and the second is dropped
C23_Witness ==
    /\ ret = [op |-> "connect", res |-> "ErrCrypto"]
    /\ rpc = "idle"
    /\ conduit = 1
    /\ streams[1].live
    /\ Len(streams) = 2
    /\ ~streams[2].live
    /\ streams[2].up = <<>>

(***************************************************************************)
(* RegionWatcher                                                           *)
(***************************************************************************)
\* RegionParams::from(settings.region), the value the watch channel starts with
DefaultParams == 0

\* the RegionParams values a fetch may return
RemoteParams == 0..MaxParams

\* Option<Duration>::None
NoDuration == -1

\* jitter the backoff applies to a delay, in percent
Jitters == {-30, 0, 30}

Min(a, b) == IF a < b THEN a ELSE b
Max(a, b) == IF a > b THEN a ELSE b

RECURSIVE Pow2(_)
Pow2(n) == IF n = 0 THEN 1 ELSE 2 * Pow2(n - 1)

\* Backoff::new(RETRIES, MIN_WAIT, MAX_WAIT).next(r): None once r exceeds the
\* retries, else the jittered exponential delay truncated to [min, max]
BackoffNext(r, j) ==
    IF r > REGION_BACKOFF_RETRIES THEN NoDuration
    ELSE LET base == REGION_BACKOFF_MIN_WAIT * Pow2(r - 1)
             jit  == (base * (100 + j)) \div 100
         IN Max(REGION_BACKOFF_MIN_WAIT, Min(REGION_BACKOFF_MAX_WAIT, jit))

\* faulty variant: out of retries, the delay falls back to the minimum wait
SleepForMin(r, j) ==
    LET d == BackoffNext(r, j)
    IN IF d = NoDuration THEN REGION_BACKOFF_MIN_WAIT ELSE d

\* faulty variant: out of retries, the delay is Duration::default()
SleepForDefault(r, j) ==
    LET d == BackoffNext(r, j)
    IN IF d = NoDuration THEN 0 ELSE d

\* run: let sleep = backoff.next(self.request_retry).unwrap_or(MAX_WAIT)
SleepFor(r, j) ==
    LET d == BackoffNext(r, j)
    IN IF d = NoDuration THEN REGION_BACKOFF_MAX_WAIT ELSE d

\* faulty variant: an error never restarts the backoff
RetryOnErrNoReset(r) == Min(r + 1, REGION_BACKOFF_RETRIES)

\* faulty variant: an error advances the counter without the cap
RetryOnErrUncapped(r) ==
    IF r > REGION_BACKOFF_RETRIES THEN 1 ELSE r + 1

\* run: the Err(_) arm of the match on check_region's result
RetryOnErr(r) ==
    IF r > REGION_BACKOFF_RETRIES THEN 1
    ELSE Min(r + 1, REGION_BACKOFF_RETRIES)

\* run: the Ok(Some(remote_params)) arm
RetryOnOk(r) == REGION_BACKOFF_RETRIES + 1

\* the watch channel: the value it holds and the values sent through it
Channel(w, log) == [value |-> w, log |-> log]

\* faulty variant: watch::Sender::send(p) with no receiver alive: the value stays
SendNoReceiver(ch, p) == [value |-> ch.value, log |-> Append(ch.log, p)]

\* watch::Sender::send_replace(p)
SendReplace(ch, p) == [value |-> p, log |-> Append(ch.log, p)]

\* faulty variant: every fetched value is sent
PublishAlways(ch, p) == SendReplace(ch, p)

\* run: if remote_params != *self.watch.borrow() { self.watch.send_replace(..) }
Publish(ch, p) == IF p # ch.value THEN SendReplace(ch, p) ELSE ch

IsWErr(res) == res \in {"ErrSeed", "ErrPeer", "ErrNoService", "ErrFetch"}

\* faulty variant: run propagates check_region's error with `?`
RunMatchFatal(res, r, w, p) ==
    CASE IsWErr(res)  -> [retry |-> r, watch |-> w, pc |-> "done", ret |-> "Err"]
      [] res = "None" -> [retry |-> r, watch |-> w, pc |-> "loop", ret |-> "none"]
      [] res = "Some" -> [retry |-> REGION_BACKOFF_RETRIES + 1, watch |-> Publish(w, p),
                          pc |-> "loop", ret |-> "none"]

\* run: the match on check_region's result; the loop goes on in every arm
\* res: an error, "None" (Ok(None)) or "Some" (Ok(Some(p)))
RunMatch(res, r, w, p) ==
    CASE IsWErr(res)  -> [retry |-> RetryOnErr(r), watch |-> w, pc |-> "loop", ret |-> "none"]
      [] res = "None" -> [retry |-> r, watch |-> w, pc |-> "loop", ret |-> "none"]
      [] res = "Some" -> [retry |-> RetryOnOk(r), watch |-> Publish(w, p),
                          pc |-> "loop", ret |-> "none"]

\* check_region: its first await, by fetch mode
CheckEntry(v) == IF v THEN "select_seed" ELSE "fetch"

\* RouterService::new and RegionWatcher::new, in either fetch mode
Init ==
    /\ conduit = NoConduit
    /\ rpc = "idle"
    /\ rop = "new"
    /\ newc = NoConduit
    /\ opened = NoConduit
    /\ streams = <<>>
    /\ ret = [op |-> "new", res |-> "Ok"]
    /\ sendHist = <<>>
    /\ validator \in BOOLEAN
    /\ request_retry = 1
    /\ watch = DefaultParams
    /\ shutdown = FALSE
    /\ wpc = "loop"
    /\ sleep = 0
    /\ wret = "none"
    /\ wres = "none"
    /\ wlast = "none"
    /\ wprev = "none"
    /\ remote_params = NoParams
    /\ pubs = <<>>
    /\ seen = NotRead
    /\ tasks = [t \in Tasks |-> "new"]
    /\ sret = "none"
    /\ now = 0
    /\ bin = None
    /\ bfirst = None
    /\ bout = None
    /\ smsg = None
    /\ ssig = None

\* check_region returned res (with params p): run's match, then the next iteration
WResult(res, p) ==
    LET m == RunMatch(res, request_retry, Channel(watch, pubs), p)
    IN /\ request_retry' = m.retry
       /\ watch' = m.watch.value
       /\ pubs' = m.watch.log
       /\ remote_params' = IF res = "Some" THEN p ELSE NoParams
       /\ wpc' = m.pc
       /\ wret' = m.ret
       /\ wres' = res
       /\ IF res = "None" THEN UNCHANGED <<wlast, wprev>>
          ELSE wlast' = res /\ wprev' = wlast
       /\ UNCHANGED <<validator, shutdown, sleep>>

\* run: top of the loop
WLoopTop ==
    /\ wpc = "loop"
    /\ \E j \in Jitters : sleep' = SleepFor(request_retry, j)
    /\ wpc' = "select"
    /\ remote_params' = NoParams
    /\ UNCHANGED <<validator, request_retry, watch, shutdown, wret, wres, wlast, wprev, pubs>>
    /\ UNCHANGED <<routerVars, subscriberVars, otherVars>>

\* run: select!, the shutdown branch
WShutdownBranch ==
    /\ wpc = "select"
    /\ shutdown
    /\ wpc' = "done"
    /\ wret' = "Ok"
    /\ UNCHANGED <<validator, request_retry, watch, shutdown, sleep, wres, wlast, wprev, remote_params, pubs>>
    /\ UNCHANGED <<routerVars, subscriberVars, otherVars>>

\* run: select!, the time::sleep(sleep) branch: check_region starts
WSleepElapsed ==
    /\ wpc = "select"
    /\ wpc' = CheckEntry(validator)
    /\ UNCHANGED <<validator, request_retry, watch, shutdown, sleep, wret, wres, wlast, wprev, remote_params, pubs>>
    /\ UNCHANGED <<routerVars, subscriberVars, otherVars>>

\* check_region (validator): GatewayService::select_seed(&self.seed_gateways)?
WSelectSeed ==
    /\ wpc = "select_seed"
    /\ \/ wpc' = "random_new" /\ UNCHANGED watcherVars2
       \/ WResult("ErrSeed", DefaultParams)
    /\ UNCHANGED <<routerVars, subscriberVars, otherVars>>

\* check_region (validator): seed_gateway.random_new(5, shutdown).await?.ok_or_else(no_service)?
WRandomNew ==
    /\ wpc = "random_new"
    /\ \/ wpc' = "fetch" /\ UNCHANGED watcherVars2
       \/ WResult("ErrPeer", DefaultParams)
       \/ WResult("ErrNoService", DefaultParams)
    /\ UNCHANGED <<routerVars, subscriberVars, otherVars>>

\* check_region: select! { shutdown => Ok(None), response = region_params(..) => .. }
WFetch ==
    /\ wpc = "fetch"
    /\ \/ shutdown /\ WResult("None", DefaultParams)
       \/ WResult("ErrFetch", DefaultParams)
       \/ \E p \in RemoteParams :
            /\ Len(pubs) < MaxPublishes \/ p = watch
            /\ WResult("Some", p)
    /\ UNCHANGED <<routerVars, subscriberVars, otherVars>>

\* pub fn current_value(receiver): receiver.borrow().clone()
current_value(ch) == ch.value

\* a subscriber (a clone of self.watcher()) reads the channel
SubscriberRead ==
    /\ seen' = [val |-> current_value(Channel(watch, pubs)), n |-> Len(pubs)]
    /\ UNCHANGED <<watcherVars, routerVars, otherVars>>

\* the shutdown trigger fires
ShutdownFire ==
    /\ ~shutdown
    /\ shutdown' = TRUE
    /\ UNCHANGED <<validator, request_retry, watch, wpc, sleep, wret, wres, wlast, wprev, remote_params, pubs>>
    /\ UNCHANGED <<routerVars, subscriberVars, otherVars>>

WatcherNext ==
    \/ WLoopTop
    \/ WShutdownBranch
    \/ WSleepElapsed
    \/ WSelectSeed
    \/ WRandomNew
    \/ WFetch
    \/ SubscriberRead
    \/ ShutdownFire

(***************************************************************************)
(* Properties of the RegionWatcher                                         *)
(***************************************************************************)
\* run is inside check_region
InCheck == wpc \in {"select_seed", "random_new", "fetch"}

\* C7: a successful fetch sets r = R+1; an error with r > R sets r = 1 and an
\* error with r <= R sets r = min(r+1, R); an Ok(None) leaves r alone. Hence
\* the first error after a success finds r = 1 and consecutive errors keep r
\* between 2 and R.
C7_RetryTransitions ==
    /\ [][ (InCheck /\ ~(InCheck')) =>
              /\ wres' = "Some" => request_retry' = REGION_BACKOFF_RETRIES + 1
              /\ (IsWErr(wres') /\ request_retry > REGION_BACKOFF_RETRIES) =>
                    request_retry' = 1
              /\ (IsWErr(wres') /\ request_retry <= REGION_BACKOFF_RETRIES) =>
                    request_retry' = Min(request_retry + 1, REGION_BACKOFF_RETRIES)
              /\ wres' = "None" => request_retry' = request_retry
         ]_vars
    /\ []( /\ (IsWErr(wlast) /\ wprev = "Some") => request_retry = 1
           /\ (IsWErr(wlast) /\ IsWErr(wprev)) =>
                 (2 <= request_retry /\ request_retry <= REGION_BACKOFF_RETRIES) )

\* the first error after a success has reset the counter
C7_Witness ==
    /\ IsWErr(wlast)
    /\ wprev = "Some"
    /\ request_retry = 1
    /\ wpc = "loop"

\* once run has computed it, the delay of the current attempt
DelayFits ==
    IF request_retry = REGION_BACKOFF_RETRIES + 1
    THEN sleep = REGION_BACKOFF_MAX_WAIT
    ELSE \E j \in Jitters : sleep = BackoffNext(request_retry, j)

\* C8: the delay before a fetch attempt is MAX_WAIT when r = R+1 and
\* backoff(r) otherwise; so after a success the next delay is 3600 s and after
\* the first error following a success it is backoff(1).
C8_SleepFromRetry ==
    wpc # "loop" =>
        /\ DelayFits
        /\ wlast = "Some" => sleep = REGION_BACKOFF_MAX_WAIT
        /\ (IsWErr(wlast) /\ wprev = "Some") =>
              \E j \in Jitters : sleep = BackoffNext(1, j)

\* steady state, one error, and the watcher now sleeps backoff(1)
C8_Witness ==
    /\ wpc = "select"
    /\ wlast = "ErrFetch"
    /\ wprev = "Some"
    /\ sleep = BackoffNext(1, 0)

\* C9: the retry counter stays within 1..R+1; it is 1 until the first fetch
\* result, an error never leaves it above R, and it is R+1 only after a
\* successful fetch.
C9_RetryRange ==
    /\ 1 <= request_retry
    /\ request_retry <= REGION_BACKOFF_RETRIES + 1
    /\ wlast = "none" => request_retry = 1
    /\ IsWErr(wlast) => request_retry <= REGION_BACKOFF_RETRIES
    /\ request_retry = REGION_BACKOFF_RETRIES + 1 => wlast = "Some"

\* repeated errors have taken the counter to R, where it stays
C9_Witness ==
    /\ request_retry = REGION_BACKOFF_RETRIES
    /\ IsWErr(wlast)
    /\ IsWErr(wprev)
    /\ wres = wlast
    /\ wpc = "select"

\* C10: run returns only Ok and only once shutdown has fired; no error of
\* check_region, in either fetch mode, ends it.
C10_NeverFatal ==
    /\ wret \in {"none", "Ok"}
    /\ wpc = "done" <=> wret = "Ok"
    /\ wpc = "done" => shutdown
    /\ IsWErr(wres) => wpc # "done" \/ shutdown

\* validator mode: seed selection failed, and run still ended Ok on shutdown
C10_Witness ==
    /\ validator
    /\ wlast = "ErrSeed"
    /\ wpc = "done"
    /\ wret = "Ok"

\* C11: once the shutdown signal has fired, run starts no new fetch attempt
\* (no step enters check_region) and the step that leaves the select! is the
\* return of Ok(()), whether run was sleeping or inside check_region.
C11_ShutdownPrompt ==
    [][shutdown =>
          /\ ~(~InCheck /\ InCheck')
          /\ (wpc = "select" /\ wpc' # "select") => (wpc' = "done" /\ wret' = "Ok")
      ]_vars

\* the step is a successful fetch: check_region returned Ok(Some(remote_params'))
FetchedSome == wpc = "fetch" /\ remote_params' # NoParams

\* C12: a successful fetch publishes the fetched value if and only if it differs
\* from the value the channel holds; an equal value is not sent; either way
\* r becomes R+1 and the channel then holds the fetched value.
C12_PublishOnChange ==
    [][FetchedSome =>
          /\ remote_params' # watch => pubs' = Append(pubs, remote_params')
          /\ remote_params' = watch => pubs' = pubs
          /\ request_retry' = REGION_BACKOFF_RETRIES + 1
          /\ watch' = remote_params'
      ]_vars

\* a fetch returned the value already held: nothing was sent, r is R+1
C12_Witness ==
    /\ wres = "Some"
    /\ remote_params = watch
    /\ pubs = <<>>
    /\ request_retry = REGION_BACKOFF_RETRIES + 1

\* C13: a subscriber that reads current_value after N publishes obtains the
\* Nth published value, never an older one; before any publish it obtains
\* the default RegionParams of the configured region.
C13_BroadcastLatest ==
    seen # NotRead =>
        /\ seen.n \in 0..Len(pubs)
        /\ seen.n = 0 => seen.val = DefaultParams
        /\ seen.n > 0 => seen.val = pubs[seen.n]

\* the subscriber read the second published value
C13_Witness ==
    /\ Len(pubs) >= 2
    /\ seen.n = Len(pubs)
    /\ seen.val = pubs[seen.n]
    /\ seen.val # pubs[1]

\* C21: the delay run computed for retry counter r is at most the delay it
\* computes for r+1 (whatever the jitter) when r is in 1..R, lies between the
\* 5 s minimum and the 3600 s maximum, and is the maximum when r > R.
C21_BackoffMonotone ==
    wpc # "loop" =>
        /\ REGION_BACKOFF_MIN_WAIT <= sleep /\ sleep <= REGION_BACKOFF_MAX_WAIT
        /\ request_retry \in 1..REGION_BACKOFF_RETRIES =>
              \A j \in Jitters : sleep <= SleepFor(request_retry + 1, j)
        /\ request_retry > REGION_BACKOFF_RETRIES => sleep = REGION_BACKOFF_MAX_WAIT

\* the last retry before the cap: its largest delay is still below max_wait
C21_Witness ==
    /\ wpc = "select"
    /\ request_retry = REGION_BACKOFF_RETRIES
    /\ sleep = SleepFor(REGION_BACKOFF_RETRIES, 30)
    /\ sleep > SleepFor(REGION_BACKOFF_RETRIES - 1, 30)
    /\ sleep < REGION_BACKOFF_MAX_WAIT

(***************************************************************************)
(* server::run                                                             *)
(***************************************************************************)
\* a joined future: not yet polled, pending, returned Ok, returned Err, or
\* dropped unfinished when try_join! returned
TaskStates == {"new", "running", "ok", "err", "dropped"}

\* the futures of ts still pending are dropped
DropPending(ts) ==
    [t \in Tasks |-> IF ts[t] = "running" THEN "dropped" ELSE ts[t]]

\* faulty variant: tokio::join!, which reports once every future has finished
JoinAll(ts) ==
    IF \E t \in Tasks : ts[t] = "running" THEN [ret |-> "none", tasks |-> ts]
    ELSE IF \E t \in Tasks : ts[t] = "err" THEN [ret |-> "Err", tasks |-> ts]
    ELSE [ret |-> "Ok", tasks |-> ts]

\* tokio::try_join!(..).map(|_| ()): Err with the first future that returns Err,
\* Ok once every future has returned Ok, pending otherwise
TryJoin(ts) ==
    IF \E t \in Tasks : ts[t] = "err"
    THEN [ret |-> "Err", tasks |-> DropPending(ts)]
    ELSE IF \A t \in Tasks : ts[t] = "ok" THEN [ret |-> "Ok", tasks |-> ts]
    ELSE [ret |-> "none", tasks |-> ts]

\* run: the five tasks are constructed and try_join! polls them
ServerStart ==
    /\ sret = "none"
    /\ \A t \in Tasks : tasks[t] = "new"
    /\ tasks' = [t \in Tasks |-> "running"]
    /\ UNCHANGED <<sret, routerVars, watcherVars, subscriberVars, beaconVars, signVars>>

\* run: Gateway::new(..).await? or LocalServer::new(..)? fails; nothing is joined
ServerStartErr ==
    /\ sret = "none"
    /\ \A t \in Tasks : tasks[t] = "new"
    /\ sret' = "Err"
    /\ UNCHANGED <<tasks, routerVars, watcherVars, subscriberVars, beaconVars, signVars>>

\* the joined future t returns r to try_join!
TaskReturn(t, r) ==
    LET j == TryJoin([tasks EXCEPT ![t] = r])
    IN /\ sret = "none"
       /\ tasks[t] = "running"
       /\ tasks' = j.tasks
       /\ sret' = j.ret
       /\ UNCHANGED <<routerVars, watcherVars, subscriberVars, beaconVars, signVars>>

\* a task's run returns Ok(()): its shutdown branch was taken
TaskOk ==
    /\ shutdown
    /\ \E t \in Tasks : TaskReturn(t, "ok")

\* a task's run returns an error; RegionWatcher::run has no such return
TaskErr ==
    \E t \in Tasks \ {"region_watcher"} : TaskReturn(t, "err")

ServerNext ==
    \/ ServerStart
    \/ ServerStartErr
    \/ TaskOk
    \/ TaskErr
    \/ ShutdownFire

(***************************************************************************)
(* Properties of server::run                                               *)
(***************************************************************************)
Started == \E t \in Tasks : tasks[t] # "new"

\* C14: run returns Err in the very step in which the first task returns Err,
\* with the tasks still pending left unfinished, and after that no task goes
\* on; run returns Ok only when all five tasks returned Ok, which needs the
\* shutdown signal.
C14_JoinFailFast ==
    /\ [](/\ tasks \in [Tasks -> TaskStates]
          /\ sret = "Ok" <=> \A t \in Tasks : tasks[t] = "ok"
          /\ sret = "Ok" => shutdown
          /\ (\E t \in Tasks : tasks[t] = "err") => sret = "Err"
          /\ (sret = "Err" /\ Started) => Cardinality({t \in Tasks : tasks[t] = "err"}) = 1
          /\ (\E t \in Tasks : tasks[t] = "dropped") => sret = "Err"
          /\ (sret = "none" /\ Started) => \A t \in Tasks : tasks[t] \in {"running", "ok"})
    /\ [][/\ (\E t \in Tasks : tasks[t] = "running" /\ tasks'[t] = "err") =>
                /\ sret' = "Err"
                /\ \A u \in Tasks : tasks[u] = "running" /\ tasks'[u] # "err"
                                        => tasks'[u] = "dropped"
          /\ sret # "none" => (sret' = sret /\ tasks' = tasks)
         ]_vars

\* after shutdown one task returned Ok, then another returned Err: run
\* returned Err and left the other three unfinished
C14_Witness ==
    /\ sret = "Err"
    /\ Cardinality({t \in Tasks : tasks[t] = "ok"}) = 1
    /\ Cardinality({t \in Tasks : tasks[t] = "dropped"}) = 3

(***************************************************************************)
(* Beacon::new                                                             *)
(***************************************************************************)
\* Entropy { version, timestamp, data }
Entropies == [version : 0..MaxVersion, timestamp : {0}, data : 0..MaxEntropy]

\* one entry of RegionParams.params: its frequency (Hz), the largest payload
\* its spreading accepts, and its EIRP
ChannelParams ==
    [channel_frequency : {903900000, 904100000},
     max_packet_size : {24, 242},
     max_eirp : {360}]

RECURSIVE SeqsUpTo(_, _)
SeqsUpTo(S, n) ==
    IF n = 0 THEN {<<>>}
    ELSE LET shorter == SeqsUpTo(S, n - 1)
         IN shorter \cup {Append(q, x) : q \in {r \in shorter : Len(r) = n - 1}, x \in S}

\* RegionParams { params, .. }, the empty list included
RegionParamsSet == [params : SeqsUpTo(ChannelParams, MaxChannels)]

\* Result<Beacon>, and a panic of the call
Ok(b) == [status |-> "Ok", error |-> "none", beacon |-> Some(b)]
Err(e) == [status |-> "Err", error |-> e, beacon |-> None]
Panic == [status |-> "Panic", error |-> "none", beacon |-> None]

\* Entropy::digest(&mut hasher): feeds the data, then the timestamp
EntropyDigest(e) == <<e.data, e.timestamp>>

\* Sha256 over the bytes fed to the hasher, as a mixing function to 16 bits
RECURSIVE Sha256(_)
Sha256(fed) ==
    IF fed = <<>> THEN 40503
    ELSE (Sha256(SubSeq(fed, 1, Len(fed) - 1)) * 31 + fed[Len(fed)] * 7 + 1) % 65536

\* faulty variant: the seed mixes in the time of the call
SeedDataTimed(remote, local) ==
    Sha256(EntropyDigest(remote) \o EntropyDigest(local) \o <<now>>)

\* new: seed_data, the hash of the remote and then the local entropy
SeedData(remote, local) == Sha256(EntropyDigest(remote) \o EntropyDigest(local))

\* the i-th byte ChaCha12Rng::from_seed(seed) yields, as a mixing function
RngByte(seed, i) == (seed * 7 + i * 13 + (seed \div 256) * i + (seed % 5) * i * i) % 256

\* faulty variant: one byte short
rand_payload_short(seed, size) ==
    [i \in 1..(IF size = 0 THEN 0 ELSE size - 1) |-> RngByte(seed, i)]

\* fn rand_payload: rng.sample_iter(Standard).take(size).collect()
rand_payload(seed, size) == [i \in 1..size |-> RngByte(seed, i)]

\* faulty variant: the first two bytes read big-endian
ReadU16BE(data) == data[1] * 256 + data[2]

\* LittleEndian::read_u16(&data)
ReadU16LE(data) == data[1] + data[2] * 256

\* RegionParams::select_datarate(size): decided by the first channel's spreading
select_datarate(rp, size) ==
    IF rp.params = <<>> THEN Err("NoDataRate")
    ELSE IF rp.params[1].max_packet_size >= size
         THEN [status |-> "Ok", error |-> "none", value |-> rp.params[1].max_packet_size]
         ELSE Err("NoDataRate")

\* RegionParams::max_conducted_power(): from the largest EIRP of the channels
max_conducted_power(rp) ==
    IF rp.params = <<>> THEN Err("NoRegionTxPower")
    ELSE [status |-> "Ok", error |-> "none",
          value |-> CHOOSE e \in {rp.params[i].max_eirp : i \in 1..Len(rp.params)} :
                        \A i \in 1..Len(rp.params) : rp.params[i].max_eirp <= e]

\* Beacon::new(remote_entropy, local_entropy, &region_params)
BeaconNew(remote_entropy, local_entropy, region_params) ==
    IF remote_entropy.version \in {0, 1}
    THEN LET seed == SeedData(remote_entropy, local_entropy)
             data == rand_payload(seed, BEACON_PAYLOAD_SIZE)
             freq_seed == ReadU16LE(data)
             len == Len(region_params.params)
         IN \* freq_seed % 0 panics
            IF len = 0 THEN Panic
            ELSE LET frequency == region_params.params[(freq_seed % len) + 1].channel_frequency
                     datarate == select_datarate(region_params, Len(data))
                     conducted_power == max_conducted_power(region_params)
                 IN IF datarate.status = "Err" THEN Err(datarate.error)
                    ELSE IF conducted_power.status = "Err" THEN Err(conducted_power.error)
                    ELSE Ok([data |-> data,
                             frequency |-> frequency,
                             datarate |-> datarate.value,
                             local_entropy |-> local_entropy,
                             remote_entropy |-> remote_entropy,
                             conducted_power |-> conducted_power.value])
    ELSE Err("InvalidVersion")

\* a caller obtains the entropies and region parameters it will build from
BeaconArgs ==
    /\ bin = None
    /\ \E r \in Entropies, l \in Entropies, rp \in RegionParamsSet :
          bin' = Some([remote |-> r, local |-> l, region_params |-> rp])
    /\ UNCHANGED <<now, bfirst, bout, routerVars, watcherVars, subscriberVars,
                   serverVars, signVars>>

\* the caller invokes Beacon::new on (clones of) what it holds
BeaconCall ==
    /\ bin # None
    /\ LET r == [at |-> now,
                 res |-> BeaconNew(bin[1].remote, bin[1].local, bin[1].region_params)]
       IN /\ bout' = Some(r)
          /\ bfirst' = IF bfirst = None THEN Some(r) ELSE bfirst
    /\ UNCHANGED <<now, bin, routerVars, watcherVars, subscriberVars, serverVars, signVars>>

\* time passes
ClockTick ==
    /\ now < MaxClock
    /\ now' = now + 1
    /\ UNCHANGED <<bin, bfirst, bout, routerVars, watcherVars, subscriberVars,
                   serverVars, signVars>>

BeaconNext ==
    \/ BeaconArgs
    \/ BeaconCall
    \/ ClockTick

(***************************************************************************)
(* Properties of Beacon::new                                               *)
(***************************************************************************)
\* the latest call has returned, or panicked
Called == bout # None
Remote == bin[1].remote
Local == bin[1].local
Params == bin[1].region_params.params
Result == bout[1].res
Built == Called /\ Result.status = "Ok"
TheBeacon == Result.beacon[1]

\* C15: whenever the remote and local entropy versions differ, or the version
\* is outside {0,1}, Beacon::new (here on region parameters a beacon can be
\* built from) fails with InvalidVersion and builds no beacon.
C15_InvalidVersion ==
    (Called /\ Params # <<>> /\ Params[1].max_packet_size >= BEACON_PAYLOAD_SIZE
        /\ (Remote.version # Local.version \/ Remote.version \notin {0, 1}))
        => (Result.status = "Err" /\ Result.error = "InvalidVersion")

\* C16: with an empty params list (and entropies of one accepted version),
\* Beacon::new returns the error value NoDataRate: no beacon, and no panic.
C16_EmptyParams ==
    (Called /\ Params = <<>> /\ Remote.version = Local.version
        /\ Remote.version \in {0, 1})
        => (Result.status = "Err" /\ Result.error = "NoDataRate")

C18_FrequencyDerivation ==
    Built =>
        /\ TheBeacon.frequency =
              Params[((TheBeacon.data[1] + 256 * TheBeacon.data[2]) % Len(Params)) + 1]
                  .channel_frequency
        /\ \E i \in 1..Len(Params) : TheBeacon.frequency = Params[i].channel_frequency

\* a beacon on the second channel, whose frequency is not the first channel's
C18_Witness ==
    /\ Built
    /\ Len(Params) >= 2
    /\ (TheBeacon.data[1] + 256 * TheBeacon.data[2]) % Len(Params) = 1
    /\ TheBeacon.data[1] % 2 # TheBeacon.data[2] % 2
    /\ TheBeacon.frequency # Params[1].channel_frequency

\* C19: rand_payload(rng, size) returns exactly size bytes for the generator
\* seeded from any entropies a caller holds, and the data of every beacon
\* built has exactly BEACON_PAYLOAD_SIZE = 51 bytes.
C19_PayloadLength ==
    /\ (bin # None /\ ~Called /\ now = 0) =>
          \A size \in 0..BEACON_PAYLOAD_SIZE :
              Len(rand_payload(SeedData(Remote, Local), size)) = size
    /\ Built =>
          /\ Len(TheBeacon.data) = 51
          /\ BEACON_PAYLOAD_SIZE = 51
          /\ \A i \in 1..51 : TheBeacon.data[i] \in 0..255

\* a beacon was built and carries 51 bytes
C19_Witness ==
    /\ Built
    /\ Len(TheBeacon.data) = BEACON_PAYLOAD_SIZE
    /\ TheBeacon.data # rand_payload(0, BEACON_PAYLOAD_SIZE)

(***************************************************************************)
(* MsgSign::sign                                                           *)
(***************************************************************************)
\* the message types MsgSign is implemented for
MsgKinds == {"PacketRouterPacketUpV1", "PacketRouterRegisterV1",
             "BlockchainTxnAddGatewayV1", "GatewayRegionParamsReqV1",
             "LoraBeaconReportReqV1", "LoraWitnessReportReqV1"}

\* the signature fields a message type has
SignatureFields(kind) ==
    IF kind = "BlockchainTxnAddGatewayV1"
    THEN {"owner_signature", "payer_signature", "gateway_signature"}
    ELSE {"signature"}

\* contents of a bytes field: empty, or one of a few values
SigBytes == {<<>>} \cup {<<v>> : v \in 1..MaxSig}

\* a message: its type, its other fields (body), its signature fields
Messages ==
    UNION {[kind : {k}, body : 0..MaxBody, sigs : [SignatureFields(k) -> SigBytes]]
              : k \in MsgKinds}

\* field order of the encoding
FieldOrder == <<"signature", "owner_signature", "payer_signature", "gateway_signature">>

\* Message::encode_to_vec: the fields in order, default (empty) ones omitted;
\* the message type is not part of the encoding
RECURSIVE EncodeSigs(_, _)
EncodeSigs(sigs, n) ==
    IF n = 0 THEN <<>>
    ELSE LET f == FieldOrder[n]
             rest == EncodeSigs(sigs, n - 1)
         IN IF f \in DOMAIN sigs /\ sigs[f] # <<>>
            THEN Append(rest, <<f, sigs[f]>>) ELSE rest

encode_to_vec(m) ==
    (IF m.body = 0 THEN <<>> ELSE <<(<<"body", m.body>>)>>)
        \o EncodeSigs(m.sigs, Len(FieldOrder))

\* keypair.sign(&buf): the signature of the gateway key over buf
KeypairSign(buf) == [signer |-> "gateway", over |-> buf]

\* faulty variant: only the first listed field is blanked
BlankListFirst(kind) ==
    IF kind = "BlockchainTxnAddGatewayV1" THEN {"owner_signature"} ELSE {"signature"}

\* the fields each impl_msg_sign! invocation lists
BlankList(kind) ==
    CASE kind = "PacketRouterPacketUpV1"    -> {"signature"}
      [] kind = "PacketRouterRegisterV1"    -> {"signature"}
      [] kind = "BlockchainTxnAddGatewayV1" ->
             {"owner_signature", "payer_signature", "gateway_signature"}
      [] kind = "GatewayRegionParamsReqV1"  -> {"signature"}
      [] kind = "LoraBeaconReportReqV1"     -> {"signature"}
      [] kind = "LoraWitnessReportReqV1"    -> {"signature"}

\* $(txn.$sig = vec![];)+
Blank(m, fields) ==
    [m EXCEPT !.sigs = [f \in DOMAIN m.sigs |-> IF f \in fields THEN <<>> ELSE m.sigs[f]]]

\* sign(&self, keypair): what happens to self, the bytes signed, the signature
MsgSign(m) ==
    LET txn == Blank(m, BlankList(m.kind))
        buf == encode_to_vec(txn)
    IN [self |-> m, buf |-> buf, sig |-> KeypairSign(buf)]

\* a caller builds a message
SignArgs ==
    /\ smsg = None
    /\ \E m \in Messages : smsg' = Some(m)
    /\ UNCHANGED <<ssig, routerVars, watcherVars, subscriberVars, serverVars, beaconVars>>

\* the caller signs the message it holds; the blocking task may fail
SignCall ==
    /\ smsg # None
    /\ LET r == MsgSign(smsg[1])
       IN /\ smsg' = Some(r.self)
          /\ \/ ssig' = Some([res |-> "Ok", buf |-> r.buf, sig |-> r.sig])
             \/ ssig' = Some([res |-> "Err", buf |-> r.buf, sig |-> <<>>])
    /\ UNCHANGED <<routerVars, watcherVars, subscriberVars, serverVars, beaconVars>>

\* register: msg.signature = msg.sign(keypair).await?
StoreSignature ==
    /\ smsg # None /\ ssig # None
    /\ ssig[1].res = "Ok"
    /\ "signature" \in DOMAIN smsg[1].sigs
    /\ smsg' = Some([smsg[1] EXCEPT !.sigs["signature"] = ssig[1].sig])
    /\ UNCHANGED <<ssig, routerVars, watcherVars, subscriberVars, serverVars, beaconVars>>

SignNext ==
    \/ SignArgs
    \/ SignCall
    \/ StoreSignature

(***************************************************************************)
(* Properties of MsgSign::sign                                             *)
(***************************************************************************)
Signed == ssig # None /\ ssig[1].res = "Ok"

\* m with every signature field it has set to empty
AllBlank(m) == [m EXCEPT !.sigs = [f \in DOMAIN m.sigs |-> <<>>]]

\* m with its signature fields replaced by other contents
Resigned(m) == {[m EXCEPT !.sigs = f] : f \in [DOMAIN m.sigs -> SigBytes]}

\* C20: the signature sign(M) returns is the keypair's signature over the
\* encoding of M with all its signature fields empty; it equals sign(M with
\* those fields blanked) and sign(M') for every M' that differs from M in
\* signature fields only; and the sign call leaves M as it was.
C20_SignBlanking ==
    /\ [](Signed =>
            /\ ssig[1].buf = encode_to_vec(AllBlank(smsg[1]))
            /\ ssig[1].sig = KeypairSign(encode_to_vec(AllBlank(smsg[1])))
            /\ ssig[1].sig = MsgSign(AllBlank(smsg[1])).sig
            /\ \A m2 \in Resigned(smsg[1]) : MsgSign(m2).sig = ssig[1].sig)
    /\ [][ssig' # ssig => smsg' = smsg]_vars

\* a gateway-add transaction carrying three different signatures was signed
C20_Witness ==
    /\ Signed
    /\ smsg[1].kind = "BlockchainTxnAddGatewayV1"
    /\ smsg[1].body # 0
    /\ smsg[1].sigs["owner_signature"] = <<1>>
    /\ smsg[1].sigs["payer_signature"] = <<2>>
    /\ smsg[1].sigs["gateway_signature"] # <<>>

RouterSpec == RouterInit /\ [][RouterNext]_vars

WatcherSpec == Init /\ [][WatcherNext]_vars

ServerSpec == Init /\ [][ServerNext]_vars

BeaconSpec == Init /\ [][BeaconNext]_vars

SignSpec == Init /\ [][SignNext]_vars

====
